---- MODULE Spec2Model ----
(***************************************************************************)
(* astro-mermaid: the HTML escaper, the inline serializer and the two      *)
(* tree transformers of src/astro-mermaid/astro-mermaid-integration.js.    *)
(*                                                                         *)
(* A JavaScript string is modelled as a sequence of one-character strings, *)
(* so that escaping, serializing and decoding are computed character by    *)
(* character, as the code does.                                            *)
(***************************************************************************)
EXTENDS Integers, Sequences, FiniteSets, TLC

VARIABLES
  text,      \* escaper run: the string handed to escapeHtml
  escaped,   \* escaper run: what escapeHtml returned
  phase,     \* escaper run: "input", "escaped" or "decoded"
  tree,      \* document run: the syntax tree the transformers mutate
  orig,      \* document run: the tree as the parser produced it
  runs,      \* document run: the transformers that have run, in order
  out,       \* document run: the host's serialization of each container
  calls,     \* concurrent run: the transformer invocations, one per document
  logger,    \* concurrent run: whether options.logger was supplied
  log,       \* concurrent run: what logger.info was called with, in order
  config,    \* setup: the host's configuration handed to astro:config:setup
  updates,   \* setup: what updateConfig was called with, in order
  injected,  \* setup: what injectScript was called with, in order
  autoTheme, \* client: the autoTheme option written into the script
  script,    \* client: how far the page script has got
  dom,       \* client: the pre.mermaid elements of the document, in order
  els,       \* client: every pre.mermaid element created so far
  tasks,     \* client: the initMermaid calls suspended at mermaid.render
  observer,  \* client: whether the MutationObserver is registered
  listener,  \* client: whether the astro:after-swap listener is registered
  htmlTheme, \* client: data-theme of the html element
  bodyTheme, \* client: data-theme of the body element
  mermaidTheme, \* client: the theme of the last mermaid.initialize
  events,    \* client: page swaps and theme changes so far
  input,     \* serializer run: the children handed to serializeHastChildren
  frames,    \* serializer run: the calls of serializeHastChildren in progress
  result,    \* serializer run: the text emitted so far
  visits     \* serializer run: the nodes the loops have passed, in order

escVars == <<text, escaped, phase>>
docVars == <<tree, orig, runs, out>>
callVars == <<calls, logger, log>>
setupVars == <<config, updates, injected>>
domVars == <<dom, els, tasks, mermaidTheme>>
clientVars == <<autoTheme, script, dom, els, tasks, observer, listener,
                htmlTheme, bodyTheme, mermaidTheme, events>>
serVars == <<input, frames, result, visits>>
vars == <<text, escaped, phase, tree, orig, runs, out, calls, logger, log,
          config, updates, injected, autoTheme, script, dom, els, tasks,
          observer, listener, htmlTheme, bodyTheme, mermaidTheme, events,
          input, frames, result, visits>>

\* ---------------------------------------------------------------- bounds
MaxLen == 3        \* longest string handed to the escaper on its own
MaxBlocks == 2     \* most top-level blocks in a document
MaxRuns == 2       \* most transformer invocations on one document
MaxInvocations == 2 \* transformer invocations the host has in progress at once
MaxPlugins == 2    \* most plugins of one kind the site has configured itself
MaxEvents == 2     \* most page swaps and theme changes after the page load
MaxChildren == 2   \* most children of the code element handed to the serializer

\* ------------------------------------------------------ string utilities
RECURSIVE Concat(_)
Concat(ss) == IF ss = <<>> THEN <<>> ELSE Head(ss) \o Concat(Tail(ss))

\* all strings over alphabet A of length at most n
StringsUpTo(A, n) == UNION { [1..k -> A] : k \in 0..n }

\* the characters the input strings are drawn from: the five characters the
\* escaper rewrites, and two it does not (one of them the entity terminator)
Alphabet == {"&", "<", ">", "\"", "'", "a", ";"}

\* ------------------------------------------------------------ escapeHtml
SpecialChars == {"&", "<", ">", "\"", "'"}

\* the table with the apostrophe entry forgotten
htmlEntitiesNoApostrophe(char) ==
  CASE char = "&"  -> <<"&", "a", "m", "p", ";">>
    [] char = "<"  -> <<"&", "l", "t", ";">>
    [] char = ">"  -> <<"&", "g", "t", ";">>
    [] char = "\"" -> <<"&", "q", "u", "o", "t", ";">>
    [] char = "'"  -> <<"'">>

htmlEntities(char) ==
  CASE char = "&"  -> <<"&", "a", "m", "p", ";">>
    [] char = "<"  -> <<"&", "l", "t", ";">>
    [] char = ">"  -> <<"&", "g", "t", ";">>
    [] char = "\"" -> <<"&", "q", "u", "o", "t", ";">>
    [] char = "'"  -> <<"&", "#", "3", "9", ";">>

\* index of the first character of s at or after position from that the
\* pattern /[&<>"']/ matches, 0 when there is none
NextMatch(s, from) ==
  LET hits == { i \in from..Len(s) : s[i] \in SpecialChars }
  IN IF hits = {} THEN 0 ELSE CHOOSE i \in hits : \A j \in hits : i <= j

\* String.prototype.replace with a global pattern: scan the ORIGINAL string
\* left to right, copy what lies between matches, emit the replacement of
\* each match, resume right after the match
RECURSIVE ReplaceFrom(_, _)
ReplaceFrom(s, from) ==
  LET m == NextMatch(s, from)
  IN IF m = 0 THEN SubSeq(s, from, Len(s))
     ELSE SubSeq(s, from, m - 1) \o htmlEntities(s[m]) \o ReplaceFrom(s, m + 1)

\* one replace call per character, the ampersand last: every pass scans the
\* output of the one before
escapeOnly(s, char) ==
  Concat([i \in 1..Len(s) |-> IF s[i] = char THEN htmlEntities(char) ELSE <<s[i]>>])
escapeHtmlChained(s) ==
  escapeOnly(escapeOnly(escapeOnly(escapeOnly(escapeOnly(
    s, "<"), ">"), "\""), "'"), "&")

escapeHtml(s) == ReplaceFrom(s, 1)

\* ------------------------------------------------------------ tree nodes
\* One record shape for every unist node; a field a node kind does not have
\* is empty ("" or <<>>), which is how the code sees an absent field.
Node(type, tagName, lang, properties, value, children) ==
  [type |-> type, tagName |-> tagName, lang |-> lang,
   properties |-> properties, value |-> value, children |-> children]

Root(children)        == Node("root", "", "", <<>>, <<>>, children)
Code(lang, value)     == Node("code", "", lang, <<>>, value, <<>>)
Html(value)           == Node("html", "", "", <<>>, value, <<>>)
Blockquote(children)  == Node("blockquote", "", "", <<>>, <<>>, children)
Text(value)           == Node("text", "", "", <<>>, value, <<>>)
Comment(value)        == Node("comment", "", "", <<>>, value, <<>>)
Element(tagName, properties, children) ==
  Node("element", tagName, "", properties, <<>>, children)

\* one entry of an element's properties object, in insertion order; the value
\* is an array of tokens (isArray) or a string
Prop(key, isArray, value) == [key |-> key, isArray |-> isArray, value |-> value]
ClassName(tokens) == Prop("className", TRUE, tokens)

\* the characters of the names that occur in the trees
Chars(name) ==
  CASE name = "u"     -> <<"u">>
    [] name = "b"     -> <<"b">>
    [] name = "br"    -> <<"b", "r">>
    [] name = "span"  -> <<"s", "p", "a", "n">>
    [] name = "code"  -> <<"c", "o", "d", "e">>
    [] name = "pre"   -> <<"p", "r", "e">>
    [] name = "p"     -> <<"p">>
    [] name = "div"   -> <<"d", "i", "v">>
    [] name = "title" -> <<"t", "i", "t", "l", "e">>
    [] name = "id"    -> <<"i", "d">>
    [] name = "x"     -> <<"x">>
    [] name = "y"     -> <<"y">>
    [] name = "mermaid" -> <<"m", "e", "r", "m", "a", "i", "d">>
    [] name = "className" -> <<"c", "l", "a", "s", "s", "N", "a", "m", "e">>
    [] name = "language-js" ->
         <<"l", "a", "n", "g", "u", "a", "g", "e", "-", "j", "s">>
    [] name = "language-mermaid" ->
         <<"l", "a", "n", "g", "u", "a", "g", "e", "-",
           "m", "e", "r", "m", "a", "i", "d">>

\* Array.prototype.join(' ')
RECURSIVE JoinSpace(_)
JoinSpace(tokens) ==
  IF tokens = <<>> THEN <<>>
  ELSE IF Len(tokens) = 1 THEN Chars(tokens[1])
  ELSE Chars(tokens[1]) \o <<" ">> \o JoinSpace(Tail(tokens))

\* -------------------------------------------------- serializeHastChildren
\* the list of self-closing tags without br
VoidTagsWithoutBr == {"hr", "img", "input", "meta", "link"}

VoidTags == {"br", "hr", "img", "input", "meta", "link"}

\* the attribute text of one properties entry
serializeProperty(prop) ==
  IF prop.key # "className"
    THEN <<" ">> \o Chars(prop.key) \o <<"=", "\"">> \o prop.value \o <<"\"">>
  ELSE IF prop.isArray
    THEN <<" ", "c", "l", "a", "s", "s", "=", "\"">>
           \o JoinSpace(prop.value) \o <<"\"">>
  ELSE <<>>

RECURSIVE serializeProperties(_)
serializeProperties(props) ==
  IF props = <<>> THEN <<>>
  ELSE serializeProperty(Head(props)) \o serializeProperties(Tail(props))

RECURSIVE serializeHastChildren(_)
serializeHastChildren(children) ==
  IF children = <<>> THEN <<>>
  ELSE
    LET child == Head(children)
        piece ==
          IF child.type = "text" THEN child.value
          ELSE IF child.type = "element" THEN
            <<"<">> \o Chars(child.tagName)
              \o serializeProperties(child.properties)
              \o (IF child.tagName \in VoidTags
                    THEN <<"/", ">">>
                    ELSE <<">">>
                           \o serializeHastChildren(child.children)
                           \o <<"<", "/">> \o Chars(child.tagName) \o <<">">>)
          ELSE <<>>
    IN piece \o serializeHastChildren(Tail(children))

\* ---------------------------------------------------- remarkMermaidPlugin
PreOpen ==
  <<"<", "p", "r", "e", " ", "c", "l", "a", "s", "s", "=", "\"",
    "m", "e", "r", "m", "a", "i", "d", "\"", ">">>
PreClose == <<"<", "/", "p", "r", "e", ">">>

\* the html node built from the raw value
htmlNodeRaw(node) == Html(PreOpen \o node.value \o PreClose)

\* a pre>code.language-mermaid element built instead, left for the rehype
\* transformer to finish
htmlNodeAsElement(node) ==
  Element("pre", <<>>,
          <<Element("code", <<ClassName(<<"language-mermaid">>)>>,
                    <<Text(node.value)>>)>>)

\* the html node the visitor builds for a matching code node
htmlNode(node) == Html(PreOpen \o escapeHtml(node.value) \o PreClose)

\* the visitor without its test of node.lang
RECURSIVE remarkVisitAnyLang(_, _)
remarkVisitAnyLang(node, hasParent) ==
  IF node.type = "code" /\ hasParent
    THEN htmlNode(node)
    ELSE [node EXCEPT !.children =
            [i \in 1..Len(node.children) |-> remarkVisitAnyLang(node.children[i], TRUE)]]

\* the visitor applied to the children of the root only
RECURSIVE remarkVisitTopLevel(_, _)
remarkVisitTopLevel(node, hasParent) ==
  IF node.type = "code" /\ node.lang = "mermaid" /\ hasParent
    THEN htmlNode(node)
    ELSE IF hasParent THEN node
    ELSE [node EXCEPT !.children =
            [i \in 1..Len(node.children) |-> remarkVisitTopLevel(node.children[i], TRUE)]]

\* the visitor passing over a code node whose value is empty
RECURSIVE remarkVisitSkipEmpty(_, _)
remarkVisitSkipEmpty(node, hasParent) ==
  IF node.type = "code" /\ node.lang = "mermaid" /\ node.value # <<>> /\ hasParent
    THEN htmlNode(node)
    ELSE [node EXCEPT !.children =
            [i \in 1..Len(node.children) |-> remarkVisitSkipEmpty(node.children[i], TRUE)]]

\* visit(tree, 'code', visitor), seen from one node: what stands in the
\* node's place once the traversal has passed it.  The visitor is called on
\* nodes of type 'code'; it stores the html node in parent.children[index]
\* only when the node has a parent; the traversal then goes on into the
\* children of the node it was visiting.
RECURSIVE remarkVisit(_, _)
remarkVisit(node, hasParent) ==
  IF node.type = "code" /\ node.lang = "mermaid" /\ hasParent
    THEN htmlNode(node)
    ELSE [node EXCEPT !.children =
            [i \in 1..Len(node.children) |-> remarkVisit(node.children[i], TRUE)]]

remarkTransformer(t) == remarkVisit(t, FALSE)

\* ---------------------------------------------------- rehypeMermaidPlugin
\* codeNode.properties?.className is an array that includes the token
classIncludes(node, token) ==
  \E i \in 1..Len(node.properties) :
    /\ node.properties[i].key = "className"
    /\ node.properties[i].isArray
    /\ \E j \in 1..Len(node.properties[i].value) :
         node.properties[i].value[j] = token

\* the condition without the test of the class list
rehypeMatchesAnyCode(node) ==
  /\ node.type = "element"
  /\ node.tagName = "pre"
  /\ Len(node.children) = 1
  /\ node.children[1].tagName = "code"

\* the condition reduced to a pre element with a single child
rehypeMatchesLonePre(node) ==
  /\ node.type = "element"
  /\ node.tagName = "pre"
  /\ Len(node.children) = 1

\* the condition under which the visitor rewrites an element
rehypeMatches(node) ==
  /\ node.type = "element"
  /\ node.tagName = "pre"
  /\ Len(node.children) = 1
  /\ node.children[1].tagName = "code"
  /\ classIncludes(node.children[1], "language-mermaid")

\* the class token pushed onto the list the element already has
withMermaidClassPushed(props) ==
  IF \E i \in 1..Len(props) : props[i].key = "className"
    THEN [i \in 1..Len(props) |->
            IF props[i].key = "className"
              THEN ClassName(Append(props[i].value, "mermaid"))
              ELSE props[i]]
    ELSE Append(props, ClassName(<<"mermaid">>))

\* { ...node.properties, className: ['mermaid'] }: an existing className key
\* keeps its place and takes the new value, otherwise the key is added last
withMermaidClass(props) ==
  IF \E i \in 1..Len(props) : props[i].key = "className"
    THEN [i \in 1..Len(props) |->
            IF props[i].key = "className" THEN ClassName(<<"mermaid">>)
            ELSE props[i]]
    ELSE Append(props, ClassName(<<"mermaid">>))

\* the plain text of a node list, tags dropped (mdast-util-to-string)
RECURSIVE toString(_)
toString(children) ==
  IF children = <<>> THEN <<>>
  ELSE (IF Head(children).type = "text" THEN Head(children).value
        ELSE toString(Head(children).children)) \o toString(Tail(children))

\* the visitor taking the plain text of the code element
RECURSIVE rehypeVisitToString(_)
rehypeVisitToString(node) ==
  IF rehypeMatches(node)
    THEN [node EXCEPT
            !.properties = withMermaidClass(node.properties),
            !.children = <<Text(escapeHtml(toString(node.children[1].children)))>>]
    ELSE [node EXCEPT !.children =
            [i \in 1..Len(node.children) |-> rehypeVisitToString(node.children[i])]]

\* the visitor escaping the text in place and keeping the code element
RECURSIVE rehypeVisitKeepCode(_)
rehypeVisitKeepCode(node) ==
  IF rehypeMatches(node)
    THEN [node EXCEPT
            !.properties = withMermaidClass(node.properties),
            !.children =
              <<[node.children[1] EXCEPT !.children =
                   <<Text(escapeHtml(serializeHastChildren(node.children[1].children)))>>]>>]
    ELSE [node EXCEPT !.children =
            [i \in 1..Len(node.children) |-> rehypeVisitKeepCode(node.children[i])]]

RECURSIVE rehypeVisit(_)
rehypeVisit(node) ==
  IF rehypeMatches(node)
    THEN [node EXCEPT
            !.properties = withMermaidClass(node.properties),
            !.children =
              <<Text(escapeHtml(serializeHastChildren(node.children[1].children)))>>]
    ELSE [node EXCEPT !.children =
            [i \in 1..Len(node.children) |-> rehypeVisit(node.children[i])]]

rehypeTransformer(t) == rehypeVisit(t)

\* ----------------------------------------------- downstream of the plugins
\* The host's HTML serializer writes the value of a text node with its own
\* entity encoding of the characters that would open markup.
stringifyEntity(char) ==
  CASE char = "&" -> <<"&", "#", "x", "2", "6", ";">>
    [] char = "<" -> <<"&", "#", "x", "3", "C", ";">>
    [] OTHER -> <<char>>

stringifyText(value) ==
  Concat([i \in 1..Len(value) |-> stringifyEntity(value[i])])

\* The HTML parser that builds the DOM decodes the character references of
\* a text run once, left to right, never looking again at what it decoded;
\* this is the text the client script reads as textContent.
CharRefs ==
  << <<htmlEntities("&"), "&">>, <<htmlEntities("<"), "<">>,
     <<htmlEntities(">"), ">">>, <<htmlEntities("\""), "\"">>,
     <<htmlEntities("'"), "'">>,
     <<stringifyEntity("&"), "&">>, <<stringifyEntity("<"), "<">> >>

StartsWithAt(s, i, pat) ==
  /\ i + Len(pat) - 1 <= Len(s)
  /\ SubSeq(s, i, i + Len(pat) - 1) = pat

RECURSIVE unescapeFrom(_, _)
unescapeFrom(s, i) ==
  IF i > Len(s) THEN <<>>
  ELSE
    LET refs == { k \in 1..Len(CharRefs) : StartsWithAt(s, i, CharRefs[k][1]) }
    IN IF refs = {} THEN <<s[i]>> \o unescapeFrom(s, i + 1)
       ELSE LET k == CHOOSE r \in refs : TRUE
            IN <<CharRefs[k][2]>> \o unescapeFrom(s, i + Len(CharRefs[k][1]))

unescapeHtml(s) == unescapeFrom(s, 1)

\* --------------------------------------------------------------- paths
Range(f) == { f[i] : i \in DOMAIN f }

RECURSIVE Paths(_)
Paths(node) ==
  {<<>>} \cup UNION { { <<i>> \o q : q \in Paths(node.children[i]) } :
                        i \in 1..Len(node.children) }

RECURSIVE NodeAt(_, _)
NodeAt(node, path) ==
  IF path = <<>> THEN node
  ELSE NodeAt(node.children[Head(path)], Tail(path))

\* a diagram container: the raw-HTML node the remark transformer writes, or
\* a pre element carrying the class mermaid
IsRawContainer(node) ==
  /\ node.type = "html"
  /\ StartsWithAt(node.value, 1, PreOpen)
  /\ Len(node.value) >= Len(PreOpen) + Len(PreClose)
  /\ StartsWithAt(node.value, Len(node.value) - Len(PreClose) + 1, PreClose)

IsPreContainer(node) ==
  /\ node.type = "element"
  /\ node.tagName = "pre"
  /\ classIncludes(node, "mermaid")

IsContainer(node) == IsRawContainer(node) \/ IsPreContainer(node)

ContainerPaths(t) == { p \in Paths(t) : IsContainer(NodeAt(t, p)) }

\* the text between the tags of a container, as the transformers left it
RECURSIVE textOf(_)
textOf(children) ==
  IF children = <<>> THEN <<>>
  ELSE (IF Head(children).type = "text" THEN Head(children).value
        ELSE textOf(Head(children).children)) \o textOf(Tail(children))

containerContent(node) ==
  IF node.type = "html"
    THEN SubSeq(node.value, Len(PreOpen) + 1, Len(node.value) - Len(PreClose))
    ELSE textOf(node.children)

\* the text between the tags of a container in the page the host emits: a
\* raw-HTML node is written as it is, a text node through stringifyText
RECURSIVE stringifyChildren(_)
stringifyChildren(children) ==
  IF children = <<>> THEN <<>>
  ELSE (IF Head(children).type = "text"
          THEN stringifyText(Head(children).value)
          ELSE stringifyChildren(Head(children).children))
       \o stringifyChildren(Tail(children))

renderedContent(node) ==
  IF node.type = "html" THEN containerContent(node)
  ELSE stringifyChildren(node.children)

\* ----------------------------------------------------- the input documents
\* diagram texts of the repository's tests: an entity typed literally, a
\* label with an inline tag, quotes, an ampersand, and the empty diagram
EntityText == <<"&", "l", "t", ";">>
TaggedText == <<"A", "[", "<", "u", ">", "B", "<", "/", "u", ">", "]">>
QuotedText == <<"\"", "'">>

DiagramTexts == {<<>>, <<"&">>, QuotedText, EntityText, TaggedText}

CodeElement(token, children) ==
  Element("code", <<ClassName(<<token>>)>>, children)
Pre(properties, children) == Element("pre", properties, children)

\* what an HTML parser makes of the inside of <code class="language-mermaid">
InlineChildren ==
  { <<>>,
    <<Text(<<"&">>)>>,
    <<Text(<<"A", "[">>), Element("u", <<>>, <<Text(<<"B">>)>>), Text(<<"]">>)>>,
    <<Text(<<"<">>), Element("br", <<>>, <<>>)>>,
    <<Element("span",
              <<ClassName(<<"x", "y">>), Prop("title", FALSE, <<"a">>)>>,
              <<Text(<<"&">>)>>)>>,
    <<Text(<<"a">>), Comment(<<"x">>), Text(<<"b">>)>> }

MermaidPre(children) == Pre(<<>>, <<CodeElement("language-mermaid", children)>>)

HastBlocks ==
  { MermaidPre(c) : c \in InlineChildren }
  \cup { Pre(<<ClassName(<<"x">>), Prop("id", FALSE, <<"x">>)>>,
             <<Element("code", <<ClassName(<<"x", "language-mermaid">>)>>,
                       <<Text(<<"'">>)>>)>>),
         Pre(<<>>, <<CodeElement("language-js", <<Text(<<"<">>)>>)>>),
         Pre(<<>>, <<Text(<<"a">>),
                     CodeElement("language-mermaid", <<Text(<<"&">>)>>)>>),
         Pre(<<>>, <<Element("span", <<ClassName(<<"language-mermaid">>)>>,
                             <<Text(<<"&">>)>>)>>),
         Pre(<<>>, <<Element("code", <<>>, <<Text(<<"&">>)>>)>>),
         Pre(<<ClassName(<<"mermaid">>)>>, <<Text(<<"a">>)>>),
         Element("div", <<>>, <<MermaidPre(<<Text(<<"&">>)>>)>>) }

MdastBlocks ==
  { Code("mermaid", v) : v \in DiagramTexts }
  \cup { Code("js", <<"&">>),
         Blockquote(<<Code("js", <<"&">>), Code("mermaid", <<"<">>)>>),
         Html(PreOpen \o <<"a">> \o PreClose) }

Blocks == HastBlocks \cup MdastBlocks

Documents == { Root(c) : c \in UNION { [1..n -> Blocks] : n \in 0..MaxBlocks } }

\* nothing serialized yet: no path has a rendering
NotSerialized == <<>>

\* data-theme when the attribute is absent
NoTheme == "null"

\* the parts of the state a run does not use
EscIdle == text = <<>> /\ escaped = <<>> /\ phase = "idle"
DocIdle ==
  tree = Root(<<>>) /\ orig = Root(<<>>) /\ runs = <<>> /\ out = NotSerialized
CallIdle == calls = <<>> /\ logger = FALSE /\ log = <<>>
SetupIdle == config = <<>> /\ updates = <<>> /\ injected = <<>>
ClientIdle ==
  /\ autoTheme = TRUE
  /\ script = "absent"
  /\ dom = <<>>
  /\ els = <<>>
  /\ tasks = <<>>
  /\ observer = FALSE
  /\ listener = FALSE
  /\ htmlTheme = NoTheme
  /\ bodyTheme = NoTheme
  /\ mermaidTheme = NoTheme
  /\ events = 0
SerIdle == input = <<>> /\ frames = <<>> /\ result = <<>> /\ visits = <<>>

\* ------------------------------------------------------- the escaper run
EscInit ==
  /\ text \in StringsUpTo(Alphabet, MaxLen)
  /\ escaped = <<>>
  /\ phase = "input"
  /\ DocIdle /\ CallIdle /\ SetupIdle /\ ClientIdle /\ SerIdle

\* escapeHtml(text)
Escape ==
  /\ phase = "input"
  /\ escaped' = escapeHtml(text)
  /\ phase' = "escaped"
  /\ UNCHANGED <<text, docVars, callVars, setupVars, clientVars, serVars>>

\* the escaped text goes through escapeHtml a second time
EscapeAgain ==
  /\ phase = "escaped"
  /\ Len(text) <= MaxLen
  /\ text' = escaped
  /\ escaped' = <<>>
  /\ phase' = "input"
  /\ UNCHANGED <<docVars, callVars, setupVars, clientVars, serVars>>

EscNext == Escape \/ EscapeAgain

EscSpec == EscInit /\ [][EscNext]_vars

\* ------------------------------------------------------ the document run
Init ==
  /\ tree \in Documents
  /\ orig = tree
  /\ runs = <<>>
  /\ out = NotSerialized
  /\ EscIdle /\ CallIdle /\ SetupIdle /\ ClientIdle /\ SerIdle

\* the host runs the remark transformer on the document's tree
RunRemark ==
  /\ Len(runs) < MaxRuns
  /\ DOMAIN out = {}
  /\ tree' = remarkTransformer(tree)
  /\ runs' = Append(runs, "remark")
  /\ UNCHANGED <<orig, out, escVars, callVars, setupVars, clientVars, serVars>>

\* the host runs the rehype transformer on the document's tree
RunRehype ==
  /\ Len(runs) < MaxRuns
  /\ DOMAIN out = {}
  /\ tree' = rehypeTransformer(tree)
  /\ runs' = Append(runs, "rehype")
  /\ UNCHANGED <<orig, out, escVars, callVars, setupVars, clientVars, serVars>>

BothRan == {"remark", "rehype"} \subseteq Range(runs)

\* the host serializes the page: what it writes between the tags of every
\* diagram container
Serialize ==
  /\ BothRan
  /\ DOMAIN out = {}
  /\ ContainerPaths(tree) # {}
  /\ out' = [p \in ContainerPaths(tree) |-> renderedContent(NodeAt(tree, p))]
  /\ UNCHANGED <<tree, orig, runs, escVars, callVars, setupVars, clientVars, serVars>>

Next == RunRemark \/ RunRehype \/ Serialize

Spec == Init /\ [][Next]_vars

TypeOK ==
  /\ phase \in {"idle", "input", "escaped"}
  /\ Len(runs) <= MaxRuns

\* ------------------------------------------- the concurrent invocations
\* the host works on several documents at once: it calls a transformer on
\* each document's tree; the call suspends at its dynamic import of the
\* traversal utility and goes on when the import has resolved
CallDocuments ==
  { Root(<<>>),
    Root(<<Code("js", <<"&">>), Pre(<<>>, <<CodeElement("language-js", <<>>)>>)>>),
    Root(<<Code("mermaid", TaggedText)>>),
    Code("mermaid", <<"&">>),
    Root(<<Code("mermaid", <<"&">>), MermaidPre(<<Text(<<"&">>)>>)>>),
    Root(<<Blockquote(<<Code("mermaid", <<>>)>>), Code("mermaid", QuotedText)>>),
    Root(<<MermaidPre(<<Text(<<"<">>)>>),
           Element("div", <<>>, <<MermaidPre(<<>>)>>)>>) }

\* file.path of a file the host gave no path
NoPath == "undefined"

RECURSIVE Sum(_)
Sum(ns) == IF ns = <<>> THEN 0 ELSE Head(ns) + Sum(Tail(ns))

\* how often the remark visitor runs mermaidCount++ over a tree
RECURSIVE remarkMermaidCount(_)
remarkMermaidCount(node) ==
  (IF node.type = "code" /\ node.lang = "mermaid" THEN 1 ELSE 0)
  + Sum([i \in 1..Len(node.children) |-> remarkMermaidCount(node.children[i])])

\* how often the rehype visitor runs mermaidCount++ over a tree
RECURSIVE rehypeMermaidCount(_)
rehypeMermaidCount(node) ==
  IF rehypeMatches(node) THEN 1
  ELSE Sum([i \in 1..Len(node.children) |-> rehypeMermaidCount(node.children[i])])

\* a counter kept by the plugin rather than by the invocation: it starts
\* where the invocations that finished before left it
mermaidCountCarried(cs) ==
  Sum([j \in DOMAIN cs |-> cs[j].mermaidCount])

\* let mermaidCount = 0
mermaidCountAtStart(cs) == 0

\* what logger.info is called with during one traversal: a line per block,
\* numbered from the counter, then the total when it is positive
reported(plugin, start, found, path) ==
  [k \in 1..found |->
     [plugin |-> plugin, about |-> "block", n |-> start + k,
      file |-> IF path = NoPath THEN "unknown file" ELSE path]]
  \o (IF start + found > 0
        THEN <<[plugin |-> plugin, about |-> "total", n |-> start + found,
                file |-> ""]>>
        ELSE <<>>)

\* a transformer that rewrites only when it has a logger to report to
invokeLoggedOnly(call, start, hasLogger) ==
  LET found == IF call.plugin = "remark" THEN remarkMermaidCount(call.tree)
               ELSE rehypeMermaidCount(call.tree)
  IN [tree |-> IF ~ hasLogger THEN call.tree
               ELSE IF call.plugin = "remark" THEN remarkTransformer(call.tree)
               ELSE rehypeTransformer(call.tree),
      mermaidCount |-> start + found,
      messages |-> IF hasLogger
                     THEN reported(call.plugin, start, found, call.path)
                     ELSE <<>>]

\* the body of transformer(tree, file) after the import: the traversal with
\* its mutations and reports, then the total
invoke(call, start, hasLogger) ==
  LET found == IF call.plugin = "remark" THEN remarkMermaidCount(call.tree)
               ELSE rehypeMermaidCount(call.tree)
  IN [tree |-> IF call.plugin = "remark" THEN remarkTransformer(call.tree)
               ELSE rehypeTransformer(call.tree),
      mermaidCount |-> start + found,
      messages |-> IF hasLogger
                     THEN reported(call.plugin, start, found, call.path)
                     ELSE <<>>]

CallInit ==
  /\ logger \in BOOLEAN
  /\ log = <<>>
  /\ \E plugins \in [1..MaxInvocations -> {"remark", "rehype"}],
        docs \in [1..MaxInvocations -> CallDocuments] :
       calls = [i \in 1..MaxInvocations |->
                  [plugin |-> plugins[i], tree |-> docs[i], orig |-> docs[i],
                   path |-> IF i = 1 THEN "post.md" ELSE NoPath,
                   pc |-> "pending", mermaidCount |-> 0]]
  /\ DocIdle /\ EscIdle /\ SetupIdle /\ ClientIdle /\ SerIdle

\* the host calls the transformer: it runs up to its await and suspends
HostCalls(i) ==
  /\ calls[i].pc = "pending"
  /\ calls' = [calls EXCEPT ![i].pc = "import"]
  /\ UNCHANGED <<logger, log, docVars, escVars, setupVars, clientVars, serVars>>

\* a traversal followed by one more suspension before the transformer
\* returns
ResumeThenSuspend(i) ==
  /\ calls[i].pc = "import"
  /\ LET r == invoke(calls[i], mermaidCountAtStart(calls), logger) IN
       /\ calls' = [calls EXCEPT ![i].tree = r.tree,
                                 ![i].mermaidCount = r.mermaidCount,
                                 ![i].pc = IF r.tree = calls[i].tree
                                             THEN "done" ELSE "import"]
       /\ log' = log \o r.messages
  /\ UNCHANGED <<logger, docVars, escVars, setupVars, clientVars, serVars>>

\* the import has resolved: the rest of the transformer runs to its end
Resume(i) ==
  /\ calls[i].pc = "import"
  /\ LET r == invoke(calls[i], mermaidCountAtStart(calls), logger) IN
       /\ calls' = [calls EXCEPT ![i].tree = r.tree,
                                 ![i].mermaidCount = r.mermaidCount,
                                 ![i].pc = "done"]
       /\ log' = log \o r.messages
  /\ UNCHANGED <<logger, docVars, escVars, setupVars, clientVars, serVars>>

CallNext == \E i \in 1..MaxInvocations : HostCalls(i) \/ Resume(i)

CallSpec == CallInit /\ [][CallNext]_vars

\* ------------------------------------------------- astro:config:setup
\* a value that may be undefined
Undefined == [defined |-> FALSE, value |-> <<>>]
Defined(v) == [defined |-> TRUE, value |-> v]

\* an entry of a plugin list: the plugin and whether it is given a logger
PluginEntry(plugin, withLogger) == [plugin |-> plugin, logger |-> withLogger]

\* the plugins a site may have configured itself
SitePlugins == { PluginEntry("a", FALSE), PluginEntry("b", FALSE) }

PluginLists ==
  {Undefined} \cup { Defined(l) : l \in StringsUpTo(SitePlugins, MaxPlugins) }

\* the host configurations: config.markdown undefined, or with each plugin
\* list undefined or an array
Configs ==
  { [markdown |-> [defined |-> FALSE, remarkPlugins |-> Undefined,
                   rehypePlugins |-> Undefined]] }
  \cup { [markdown |-> [defined |-> TRUE, remarkPlugins |-> r,
                        rehypePlugins |-> h]] : r, h \in PluginLists }

\* config.markdown?.remarkPlugins || []
existingRemarkPlugins(cfg) ==
  IF cfg.markdown.defined /\ cfg.markdown.remarkPlugins.defined
    THEN cfg.markdown.remarkPlugins.value ELSE <<>>

\* config.markdown?.rehypePlugins || []
existingRehypePlugins(cfg) ==
  IF cfg.markdown.defined /\ cfg.markdown.rehypePlugins.defined
    THEN cfg.markdown.rehypePlugins.value ELSE <<>>

\* the mermaid plugins put in front of the site's own
configUpdatePrepended(cfg) ==
  [markdown |->
     [remarkPlugins |-> <<PluginEntry("remarkMermaidPlugin", TRUE)>>
                          \o existingRemarkPlugins(cfg),
      rehypePlugins |-> <<PluginEntry("rehypeMermaidPlugin", TRUE)>>
                          \o existingRehypePlugins(cfg)],
   vite |-> [optimizeDeps |-> [include |-> <<"mermaid">>]]]

\* the argument of updateConfig
configUpdate(cfg) ==
  [markdown |->
     [remarkPlugins |-> existingRemarkPlugins(cfg)
                          \o <<PluginEntry("remarkMermaidPlugin", TRUE)>>,
      rehypePlugins |-> existingRehypePlugins(cfg)
                          \o <<PluginEntry("rehypeMermaidPlugin", TRUE)>>],
   vite |-> [optimizeDeps |-> [include |-> <<"mermaid">>]]]

SetupInit ==
  /\ config \in Configs
  /\ updates = <<>>
  /\ injected = <<>>
  /\ DocIdle /\ EscIdle /\ CallIdle /\ ClientIdle /\ SerIdle

\* the host runs the hook: one updateConfig, then the page script and the
\* page styles are injected
ConfigSetup ==
  /\ updates = <<>>
  /\ updates' = <<configUpdate(config)>>
  /\ injected' = <<[stage |-> "page", content |-> "mermaidScriptContent"],
                   [stage |-> "page", content |-> "style"]>>
  /\ UNCHANGED <<config, docVars, escVars, callVars, clientVars, serVars>>

SetupNext == ConfigSetup

SetupSpec == SetupInit /\ [][SetupNext]_vars

\* ------------------------------------------------------ the page script
\* The script injected into every page.  A pre.mermaid element is a record
\* of its data-processed flag, its data-diagram attribute and its content;
\* a diagram source is a positive number (an element's own source is its
\* index in els), and the text of rendered markup is not a source.
NoAttr == 0        \* getAttribute of an attribute that is absent
SvgText == -1      \* textContent of an element holding a rendered diagram
ErrorText == -2    \* textContent of an element holding the error box

\* the number of pre.mermaid elements a page may have
PageSizes == {0, 1, 2}

\* the values the site gives data-theme: one the theme map knows, one it
\* does not
SiteThemes == {"dark", "sepia"}

\* the theme option of the integration
configuredTheme == "forest"

\* a pre.mermaid element as the server sent it
FreshElement(source) ==
  [processed |-> FALSE, dataDiagram |-> NoAttr,
   content |-> [kind |-> "text", def |-> source, theme |-> NoTheme]]

\* the elements of a page with n diagrams, created after k others
FreshElements(k, n) == [i \in 1..n |-> FreshElement(k + i)]

\* diagram.textContent
textContent(el) ==
  CASE el.content.kind = "text" -> el.content.def
    [] el.content.kind = "svg" -> SvgText
    [] OTHER -> ErrorText

\* themeMap[dataTheme] || defaultConfig.theme
themeMap(dataTheme) ==
  CASE dataTheme \in {"dark", "catppuccin-mocha", "dracula",
                      "gruvbox-dark-soft", "one-dark-pro", "synthwave-84"}
         -> "dark"
    [] dataTheme \in {"light", "catppuccin-latte", "gruvbox-light-soft",
                      "one-light", "snazzy-light", "solarized-light"}
         -> "default"
    [] OTHER -> configuredTheme

\* the theme taken from data-theme whatever the autoTheme option says
currentThemeAlwaysMapped(auto, html, body) ==
  themeMap(IF html # NoTheme THEN html ELSE body)

\* the theme initMermaid hands to mermaid.initialize
currentTheme(auto, html, body) ==
  IF auto THEN themeMap(IF html # NoTheme THEN html ELSE body)
  ELSE configuredTheme

\* the loop storing the element's text in data-diagram on every pass
renderNextFromText(diagrams, from, E, theme) ==
  LET todo == { k \in from..Len(diagrams) : ~ E[diagrams[k]].processed } IN
    IF todo = {} THEN [els |-> E, started |-> <<>>]
    ELSE LET k == CHOOSE x \in todo : \A y \in todo : x <= y
             id == diagrams[k]
             E2 == [E EXCEPT ![id].dataDiagram = textContent(E[id])]
         IN [els |-> E2,
             started |-> <<[diagrams |-> diagrams, idx |-> k,
                            def |-> E2[id].dataDiagram, theme |-> theme]>>]

\* the for loop of initMermaid from position from of its snapshot, up to
\* its next await: the elements already processed are skipped, data-diagram
\* is stored when absent, and mermaid.render is called with it
renderNext(diagrams, from, E, theme) ==
  LET todo == { k \in from..Len(diagrams) : ~ E[diagrams[k]].processed } IN
    IF todo = {} THEN [els |-> E, started |-> <<>>]
    ELSE LET k == CHOOSE x \in todo : \A y \in todo : x <= y
             id == diagrams[k]
             E2 == IF E[id].dataDiagram = NoAttr
                     THEN [E EXCEPT ![id].dataDiagram = textContent(E[id])]
                     ELSE E
         IN [els |-> E2,
             started |-> <<[diagrams |-> diagrams, idx |-> k,
                            def |-> E2[id].dataDiagram, theme |-> theme]>>]

\* initMermaid() up to its first await: the snapshot of the document's
\* pre.mermaid elements, mermaid.initialize with the current theme, then
\* the loop
initMermaid(D, E, configured, auto, html, body) ==
  IF D = <<>> THEN [els |-> E, started |-> <<>>, theme |-> configured]
  ELSE LET r == renderNext(D, 1, E, currentTheme(auto, html, body)) IN
         [els |-> r.els, started |-> r.started,
          theme |-> currentTheme(auto, html, body)]

\* a script that imports the library whatever the page holds
scriptStartEager(D) == "importing"

\* if (hasMermaidDiagrams()) import('mermaid') ... else skip
scriptStart(D) == IF Len(D) > 0 THEN "importing" ELSE "skipped"

ClientInit ==
  /\ autoTheme \in BOOLEAN
  /\ script = "loaded"
  /\ \E n \in PageSizes :
       /\ els = FreshElements(0, n)
       /\ dom = [i \in 1..n |-> i]
  /\ tasks = <<>>
  /\ observer = FALSE
  /\ listener = FALSE
  /\ htmlTheme \in {NoTheme, "dark"}
  /\ bodyTheme = NoTheme
  /\ mermaidTheme = NoTheme
  /\ events = 0
  /\ DocIdle /\ EscIdle /\ CallIdle /\ SetupIdle /\ SerIdle

\* the page script runs, once, when the first page has loaded
RunScript ==
  /\ script = "loaded"
  /\ script' = scriptStart(dom)
  /\ UNCHANGED <<autoTheme, dom, els, tasks, observer, listener, htmlTheme,
                 bodyTheme, mermaidTheme, events>>
  /\ UNCHANGED <<docVars, escVars, callVars, setupVars, serVars>>

\* import('mermaid') resolves: the first initMermaid(), then the observer
\* when autoTheme is on, then the astro:after-swap listener
ImportResolves ==
  /\ script = "importing"
  /\ script' = "ready"
  /\ LET r == initMermaid(dom, els, mermaidTheme, autoTheme, htmlTheme, bodyTheme) IN
       /\ els' = r.els
       /\ tasks' = tasks \o r.started
       /\ mermaidTheme' = r.theme
  /\ observer' = autoTheme
  /\ listener' = TRUE
  /\ UNCHANGED <<autoTheme, dom, htmlTheme, bodyTheme, events>>
  /\ UNCHANGED <<docVars, escVars, callVars, setupVars, serVars>>

\* import('mermaid') rejects: the catch reports it
ImportFails ==
  /\ script = "importing"
  /\ script' = "failed"
  /\ UNCHANGED <<autoTheme, dom, els, tasks, observer, listener, htmlTheme,
                 bodyTheme, mermaidTheme, events>>
  /\ UNCHANGED <<docVars, escVars, callVars, setupVars, serVars>>

\* a loop that a rejected render ends: the error box is shown and the
\* remaining diagrams of the pass are left alone
settledAbortOnError(t, kind) ==
  LET task == tasks[t]
      id == task.diagrams[task.idx]
      E1 == [els EXCEPT ![id].content = [kind |-> kind, def |-> task.def,
                                          theme |-> task.theme],
                        ![id].processed = TRUE]
      r == IF kind = "error" THEN [els |-> E1, started |-> <<>>]
           ELSE renderNext(task.diagrams, task.idx + 1, E1, mermaidTheme)
  IN [els |-> r.els,
      tasks |-> SubSeq(tasks, 1, t - 1) \o r.started
                  \o SubSeq(tasks, t + 1, Len(tasks))]

\* what the loop of a suspended initMermaid does when its render has
\* settled with the given kind of content
settled(t, kind) ==
  LET task == tasks[t]
      id == task.diagrams[task.idx]
      E1 == [els EXCEPT ![id].content = [kind |-> kind, def |-> task.def,
                                          theme |-> task.theme],
                        ![id].processed = TRUE]
      r == renderNext(task.diagrams, task.idx + 1, E1, mermaidTheme)
  IN [els |-> r.els,
      tasks |-> SubSeq(tasks, 1, t - 1) \o r.started
                  \o SubSeq(tasks, t + 1, Len(tasks))]

\* mermaid.render resolves: the svg becomes the element's content
RenderResolves(t) ==
  /\ t \in DOMAIN tasks
  /\ els' = settled(t, "svg").els
  /\ tasks' = settled(t, "svg").tasks
  /\ UNCHANGED <<autoTheme, script, dom, observer, listener, htmlTheme,
                 bodyTheme, mermaidTheme, events>>
  /\ UNCHANGED <<docVars, escVars, callVars, setupVars, serVars>>

\* mermaid.render rejects: the error box becomes the element's content
RenderRejects(t) ==
  /\ t \in DOMAIN tasks
  /\ els' = settled(t, "error").els
  /\ tasks' = settled(t, "error").tasks
  /\ UNCHANGED <<autoTheme, script, dom, observer, listener, htmlTheme,
                 bodyTheme, mermaidTheme, events>>
  /\ UNCHANGED <<docVars, escVars, callVars, setupVars, serVars>>

\* a view transition swaps in a page with n diagrams and astro:after-swap
\* is dispatched; the listener, when registered, calls initMermaid() if
\* the new page has diagrams
Swap(n) ==
  /\ script \notin {"absent", "loaded"}
  /\ events < MaxEvents
  /\ events' = events + 1
  /\ LET D == [i \in 1..n |-> Len(els) + i]
         E == els \o FreshElements(Len(els), n)
         r == initMermaid(D, E, mermaidTheme, autoTheme, htmlTheme, bodyTheme)
     IN /\ dom' = D
        /\ IF listener /\ Len(D) > 0
             THEN /\ els' = r.els
                  /\ tasks' = tasks \o r.started
                  /\ mermaidTheme' = r.theme
             ELSE /\ els' = E
                  /\ UNCHANGED <<tasks, mermaidTheme>>
  /\ UNCHANGED <<autoTheme, script, observer, listener, htmlTheme, bodyTheme>>
  /\ UNCHANGED <<docVars, escVars, callVars, setupVars, serVars>>

\* the elements after the observer has removed data-processed from every
\* processed pre.mermaid of the document
unprocessed(D, E) ==
  [id \in DOMAIN E |->
     IF id \in Range(D) THEN [E[id] EXCEPT !.processed = FALSE] ELSE E[id]]

\* the site sets data-theme on html or body; the observer, when registered,
\* resets the processed diagrams and calls initMermaid()
ThemeChange(onHtml, value) ==
  /\ script \notin {"absent", "loaded"}
  /\ events < MaxEvents
  /\ value # (IF onHtml THEN htmlTheme ELSE bodyTheme)
  /\ events' = events + 1
  /\ htmlTheme' = (IF onHtml THEN value ELSE htmlTheme)
  /\ bodyTheme' = (IF onHtml THEN bodyTheme ELSE value)
  /\ LET r == initMermaid(dom, unprocessed(dom, els), mermaidTheme, autoTheme,
                          htmlTheme', bodyTheme')
     IN IF observer
          THEN /\ els' = r.els
               /\ tasks' = tasks \o r.started
               /\ mermaidTheme' = r.theme
          ELSE UNCHANGED <<els, tasks, mermaidTheme>>
  /\ UNCHANGED <<autoTheme, script, dom, observer, listener>>
  /\ UNCHANGED <<docVars, escVars, callVars, setupVars, serVars>>

ClientNext ==
  \/ RunScript
  \/ ImportResolves
  \/ ImportFails
  \/ \E t \in 1..(MaxEvents + 1) : RenderResolves(t) \/ RenderRejects(t)
  \/ \E n \in PageSizes : Swap(n)
  \/ \E onHtml \in BOOLEAN, value \in SiteThemes \cup {NoTheme} :
       ThemeChange(onHtml, value)

ClientSpec == ClientInit /\ [][ClientNext]_vars

\* ------------------------------------------- serializeHastChildren, stepwise
\* The serializer one loop iteration at a time.  A frame is one call of
\* serializeHastChildren: the children it loops over, the position of its
\* loop, the tag its caller closes when it returns (none for the outermost
\* call) and the path of the node whose children they are.
SerNodes ==
  { Text(<<"&">>),
    Text(<<"<", "a">>),
    Comment(<<"x">>),
    Element("br", <<>>, <<>>),
    Element("p", <<>>, <<>>),
    Element("u", <<>>, <<Text(<<"B">>)>>),
    Element("span",
            <<ClassName(<<"x", "y">>), Prop("title", FALSE, <<"a">>)>>,
            <<Text(<<"&">>)>>),
    Element("span", <<Prop("id", FALSE, <<"x">>),
                      Prop("className", FALSE, <<"y">>)>>, <<>>),
    Element("div", <<>>,
            <<Element("b", <<Prop("id", FALSE, <<"x">>)>>, <<Text(<<"a">>)>>),
              Element("br", <<>>, <<>>)>>) }

SerInputs == StringsUpTo(SerNodes, MaxChildren)

Frame(children, tagName, path) ==
  [children |-> children, i |-> 1, tagName |-> tagName, path |-> path]

\* a loop iteration that escapes the text it emits
serVisitEscaping(child, path) ==
  IF child.type = "text" THEN [emit |-> escapeHtml(child.value), call |-> <<>>]
  ELSE IF child.type = "element" THEN
    LET open == <<"<">> \o Chars(child.tagName)
                  \o serializeProperties(child.properties)
    IN IF child.tagName \in VoidTags
         THEN [emit |-> open \o <<"/", ">">>, call |-> <<>>]
       ELSE IF Len(child.children) > 0
         THEN [emit |-> open \o <<">">>,
               call |-> <<Frame(child.children, child.tagName, path)>>]
       ELSE [emit |-> open \o <<">", "<", "/">> \o Chars(child.tagName)
                       \o <<">">>,
             call |-> <<>>]
  ELSE [emit |-> <<>>, call |-> <<>>]

\* a loop iteration that serializes an element's children twice
serVisitChildrenTwice(child, path) ==
  IF child.type = "text" THEN [emit |-> child.value, call |-> <<>>]
  ELSE IF child.type = "element" THEN
    LET open == <<"<">> \o Chars(child.tagName)
                  \o serializeProperties(child.properties)
    IN IF child.tagName \in VoidTags
         THEN [emit |-> open \o <<"/", ">">>, call |-> <<>>]
       ELSE IF Len(child.children) > 0
         THEN [emit |-> open \o <<">">>,
               call |-> <<Frame(child.children, child.tagName, path),
                          Frame(child.children, "", path)>>]
       ELSE [emit |-> open \o <<">", "<", "/">> \o Chars(child.tagName)
                       \o <<">">>,
             call |-> <<>>]
  ELSE [emit |-> <<>>, call |-> <<>>]

\* one iteration of the for loop on a child: what it appends to result
\* before it returns or recurses, and the recursive call it makes
serVisit(child, path) ==
  IF child.type = "text" THEN [emit |-> child.value, call |-> <<>>]
  ELSE IF child.type = "element" THEN
    LET open == <<"<">> \o Chars(child.tagName)
                  \o serializeProperties(child.properties)
    IN IF child.tagName \in VoidTags
         THEN [emit |-> open \o <<"/", ">">>, call |-> <<>>]
       ELSE IF Len(child.children) > 0
         THEN [emit |-> open \o <<">">>,
               call |-> <<Frame(child.children, child.tagName, path)>>]
       ELSE [emit |-> open \o <<">", "<", "/">> \o Chars(child.tagName)
                       \o <<">">>,
             call |-> <<>>]
  ELSE [emit |-> <<>>, call |-> <<>>]

SerInit ==
  /\ input \in SerInputs
  /\ frames = <<Frame(input, "", <<>>)>>
  /\ result = <<>>
  /\ visits = <<>>
  /\ DocIdle /\ EscIdle /\ CallIdle /\ SetupIdle /\ ClientIdle

\* the innermost loop takes its next child
VisitChild ==
  /\ frames # <<>>
  /\ LET top == frames[Len(frames)] IN
       /\ top.i <= Len(top.children)
       /\ LET path == top.path \o <<top.i>>
              r == serVisit(top.children[top.i], path)
          IN /\ result' = result \o r.emit
             /\ visits' = Append(visits, path)
             /\ frames' = [frames EXCEPT ![Len(frames)].i = top.i + 1] \o r.call
  /\ UNCHANGED input
  /\ UNCHANGED <<docVars, escVars, callVars, setupVars, clientVars>>

\* the innermost loop is over: the call returns and its caller closes the tag
ReturnResult ==
  /\ frames # <<>>
  /\ LET top == frames[Len(frames)] IN
       /\ top.i > Len(top.children)
       /\ result' = result \o (IF top.tagName = "" THEN <<>>
                               ELSE <<"<", "/">> \o Chars(top.tagName) \o <<">">>)
       /\ frames' = SubSeq(frames, 1, Len(frames) - 1)
  /\ UNCHANGED <<input, visits>>
  /\ UNCHANGED <<docVars, escVars, callVars, setupVars, clientVars>>

SerNext == VisitChild \/ ReturnResult

SerSpec == SerInit /\ [][SerNext]_vars

\* the stepwise run ends with what the function returns
SerAgrees == frames = <<>> => result = serializeHastChildren(input)

\* =================================================================== claims
\* what a claim calls the image of one character
CharImage(char) ==
  CASE char = "&"  -> <<"&", "a", "m", "p", ";">>
    [] char = "<"  -> <<"&", "l", "t", ";">>
    [] char = ">"  -> <<"&", "g", "t", ";">>
    [] char = "\"" -> <<"&", "q", "u", "o", "t", ";">>
    [] char = "'"  -> <<"&", "#", "3", "9", ";">>
    [] OTHER -> <<char>>

\* the in-order concatenation of the images of the characters of s
Escaped(s) == Concat([i \in 1..Len(s) |-> CharImage(s[i])])

\* C1: escapeHtml is one simultaneous per-character substitution: its result
\* is the in-order concatenation of the image of each character of the input,
\* also when the input is itself the output of an earlier escape (the
\* ampersand of an entity is then escaped as any other ampersand of the
\* input, and the characters a substitution wrote are not looked at again).
C1_PerCharacterSubstitution ==
  phase = "escaped" => escaped = Escaped(text)

C1_Witness ==
  /\ phase = "escaped"
  /\ text = <<"&", "<", "a">>
  /\ escaped = <<"&", "a", "m", "p", ";", "&", "l", "t", ";", "a">>

\* C2: the escaped string has no literal <, >, " or ', and decoding its
\* character references once gives back the input exactly.
C2_RoundTrip ==
  phase = "escaped" =>
    /\ \A i \in 1..Len(escaped) : escaped[i] \notin {"<", ">", "\"", "'"}
    /\ unescapeHtml(escaped) = text

C2_Witness ==
  /\ phase = "escaped"
  /\ text = <<"&", "#", "3", "9", ";">>
  /\ escaped = <<"&", "a", "m", "p", ";", "#", "3", "9", ";">>

\* a step of the remark (rehype) transformer
RemarkStep == runs' = Append(runs, "remark")
RehypeStep == runs' = Append(runs, "rehype")

IsMermaidCode(node) == node.type = "code" /\ node.lang = "mermaid"

\* a node without its subtree
Shallow(node) == [node EXCEPT !.children = <<>>]

\* C3: a step of the remark transformer puts, in the place of every code
\* node with lang 'mermaid' that has a parent, an html node whose value is
\* '<pre class="mermaid">' + the escaped value + '</pre>'; every parent keeps
\* its number of children and its other children stay where they are.
C3_RemarkReplaces ==
  [][RemarkStep =>
      /\ Paths(tree') = Paths(tree)
      /\ \A p \in Paths(tree) :
           LET node == NodeAt(tree, p) IN
             IF IsMermaidCode(node) /\ p # <<>>
               THEN NodeAt(tree', p) = Html(PreOpen \o Escaped(node.value) \o PreClose)
               ELSE Shallow(NodeAt(tree', p)) = Shallow(node)]_vars

C3_Witness ==
  /\ runs = <<"remark">>
  /\ \E p \in Paths(orig) :
       /\ NodeAt(orig, p) = Code("mermaid", TaggedText)
       /\ Len(p) = 1 /\ Len(orig.children) = 2
       /\ NodeAt(tree, p).type = "html"

\* C4: a step of the remark transformer leaves every code node whose lang
\* is not 'mermaid' as it is and where it is, and leaves a tree without a
\* mermaid code node unchanged.
C4_RemarkFrame ==
  [][RemarkStep =>
      /\ \A p \in Paths(tree) :
           LET node == NodeAt(tree, p) IN
             (node.type = "code" /\ node.lang # "mermaid") =>
               (p \in Paths(tree') /\ NodeAt(tree', p) = node)
      /\ (~ \E p \in Paths(tree) : IsMermaidCode(NodeAt(tree, p))) => tree' = tree]_vars

C4_Witness ==
  /\ runs = <<"remark">>
  /\ tree # orig
  /\ \E p \in Paths(orig) :
       /\ NodeAt(orig, p) = Code("js", <<"&">>)
       /\ NodeAt(tree, p) = Code("js", <<"&">>)

\* a pre element with exactly one child, a code element whose class list
\* contains language-mermaid
IsMermaidPre(node) ==
  /\ node.type = "element" /\ node.tagName = "pre"
  /\ Len(node.children) = 1
  /\ node.children[1].type = "element" /\ node.children[1].tagName = "code"
  /\ \E k \in 1..Len(node.children[1].properties) :
       /\ node.children[1].properties[k].key = "className"
       /\ "language-mermaid" \in Range(node.children[1].properties[k].value)

ClassLists(node) ==
  { node.properties[k].value : k \in { j \in 1..Len(node.properties) :
                                          node.properties[j].key = "className" } }

\* C5: a step of the rehype transformer rewrites every pre element that has
\* exactly one child, a code element with language-mermaid in its class list:
\* the pre's class list becomes exactly ['mermaid'], its children exactly one
\* text node holding the escaped serialization of the code's children, and
\* no code element is left under it.
C5_RehypeRewrites ==
  [][RehypeStep =>
      \A p \in Paths(tree) :
        LET node == NodeAt(tree, p) IN
          IsMermaidPre(node) =>
            /\ p \in Paths(tree')
            /\ ClassLists(NodeAt(tree', p)) = {<<"mermaid">>}
            /\ NodeAt(tree', p).children =
                 <<Text(Escaped(serializeHastChildren(node.children[1].children)))>>
            /\ \A q \in Paths(NodeAt(tree', p)) :
                 NodeAt(NodeAt(tree', p), q).tagName # "code"]_vars

C5_Witness ==
  /\ runs = <<"rehype">>
  /\ \E p \in Paths(orig) :
       /\ IsMermaidPre(NodeAt(orig, p))
       /\ ClassLists(NodeAt(orig, p)) = {<<"x">>}
       /\ ClassLists(NodeAt(tree, p)) = {<<"mermaid">>}
       /\ NodeAt(tree, p).children = <<Text(<<"&", "#", "3", "9", ";">>)>>

\* the paths strictly below path p
Below(p, t) == { q \in Paths(t) : Len(q) > Len(p) /\ SubSeq(q, 1, Len(p)) = p }

\* C6: a step of the rehype transformer leaves every pre element that is
\* not such a match (more than one child, a single child that is not a code
\* element, a code child without the class token) with the same properties
\* and children, and changes no node that is not a matched pre or under one.
C6_RehypeFrame ==
  [][RehypeStep =>
      LET matched == { p \in Paths(tree) : IsMermaidPre(NodeAt(tree, p)) }
          under == UNION { Below(p, tree) : p \in matched }
      IN \A p \in Paths(tree) \ (matched \cup under) :
           /\ p \in Paths(tree')
           /\ Shallow(NodeAt(tree', p)) = Shallow(NodeAt(tree, p))
           /\ Len(NodeAt(tree', p).children) = Len(NodeAt(tree, p).children)
           /\ (NodeAt(tree, p).tagName = "pre") => NodeAt(tree', p) = NodeAt(tree, p)]_vars

C6_Witness ==
  /\ runs = <<"rehype">>
  /\ tree # orig
  /\ \E p \in Paths(orig) :
       /\ NodeAt(orig, p) =
            Pre(<<>>, <<Text(<<"a">>), CodeElement("language-mermaid", <<Text(<<"&">>)>>)>>)
       /\ NodeAt(tree, p) = NodeAt(orig, p)

\* the diagram blocks of a tree: the mermaid code nodes that have a parent
\* and the pre elements the rehype transformer is to rewrite
DiagramPaths(t) ==
  { p \in Paths(t) \ {<<>>} :
      IsMermaidCode(NodeAt(t, p)) \/ IsMermaidPre(NodeAt(t, p)) }

\* the string a transformer is handed for a diagram block
DiagramSource(node) ==
  IF IsMermaidCode(node) THEN node.value
  ELSE serializeHastChildren(node.children[1].children)

\* C7: no double escaping: once the host has serialized the page, decoding
\* the character references of what stands between the tags of a diagram's
\* container once gives the diagram source string, whichever transformer
\* handled the diagram (every & of the source is there as one reference to
\* &, none as a reference to the & of a reference).
C7_NoDoubleEscaping ==
  DOMAIN out # {} =>
    \A p \in DiagramPaths(orig) :
      /\ p \in DOMAIN out
      /\ unescapeHtml(out[p]) = DiagramSource(NodeAt(orig, p))

\* the HTML an author types for a list of nodes
RECURSIVE AuthorMarkup(_)
AuthorMarkup(children) ==
  IF children = <<>> THEN <<>>
  ELSE
    LET child == Head(children)
        piece ==
          IF child.type = "text" THEN child.value
          ELSE IF child.type = "comment"
            THEN <<"<", "!", "-", "-">> \o child.value \o <<"-", "-", ">">>
          ELSE <<"<">> \o Chars(child.tagName)
                 \o serializeProperties(child.properties)
                 \o (IF child.tagName \in VoidTags
                       THEN <<"/", ">">>
                       ELSE <<">">> \o AuthorMarkup(child.children)
                              \o <<"<", "/">> \o Chars(child.tagName) \o <<">">>)
    IN piece \o AuthorMarkup(Tail(children))

\* the diagram text the author wrote for a diagram block
AuthorText(node) ==
  IF IsMermaidCode(node) THEN node.value
  ELSE AuthorMarkup(node.children[1].children)

\* C8: after both transformers have run, decoding once the text content of
\* a diagram's container gives the author's diagram text byte for byte; and
\* after the host's serialization, decoding it once more where the content
\* went through that second encoding (a text node) gives it as well.
C8_SourceRecovered ==
  BothRan =>
    \A p \in DiagramPaths(orig) :
      /\ p \in Paths(tree)
      /\ unescapeHtml(containerContent(NodeAt(tree, p))) = AuthorText(NodeAt(orig, p))
      /\ (DOMAIN out # {}) =>
           /\ p \in DOMAIN out
           /\ AuthorText(NodeAt(orig, p)) =
                IF NodeAt(tree, p).type = "html"
                  THEN unescapeHtml(out[p])
                  ELSE unescapeHtml(unescapeHtml(out[p]))

TaggedChildren ==
  <<Text(<<"A", "[">>), Element("u", <<>>, <<Text(<<"B">>)>>), Text(<<"]">>)>>

\* C9: when the children of a matched code element include element nodes,
\* a step of the rehype transformer leaves no element node under the pre:
\* its one child is a text node without a literal < or >, and decoding that
\* text once gives the markup as text (for A[<u>B</u>] exactly that string).
C9_MarkupAsText ==
  [][RehypeStep =>
      \A p \in Paths(tree) :
        LET node == NodeAt(tree, p) IN
          (/\ IsMermaidPre(node)
           /\ \E i \in 1..Len(node.children[1].children) :
                node.children[1].children[i].type = "element") =>
            LET new == NodeAt(tree', p)
                kids == node.children[1].children
            IN /\ Len(new.children) = 1
               /\ \A q \in Paths(new) \ {<<>>} : NodeAt(new, q).type = "text"
               /\ \A i \in 1..Len(new.children[1].value) :
                    new.children[1].value[i] \notin {"<", ">"}
               /\ unescapeHtml(new.children[1].value) = serializeHastChildren(kids)
               /\ (kids = TaggedChildren) =>
                    unescapeHtml(new.children[1].value) = TaggedText]_vars

C9_Witness ==
  /\ "rehype" \in Range(runs)
  /\ \E p \in Paths(orig) :
       /\ NodeAt(orig, p) = MermaidPre(TaggedChildren)
       /\ NodeAt(tree, p).children = <<Text(Escaped(TaggedText))>>

\* C10: after both transformers have run, the containers of the tree are
\* the containers it had and one for each of its N diagram blocks, in the
\* place of that block, and no mermaid code node and no pre>code with
\* language-mermaid is left.
C10_Multiplicity ==
  BothRan =>
    /\ ContainerPaths(tree) = ContainerPaths(orig) \cup DiagramPaths(orig)
    /\ Cardinality(ContainerPaths(tree) \ ContainerPaths(orig))
         = Cardinality(DiagramPaths(orig))
    /\ DiagramPaths(tree) = {}

C10_Witness ==
  /\ BothRan
  /\ \E p, q \in DiagramPaths(orig) :
       /\ IsMermaidCode(NodeAt(orig, p))
       /\ IsMermaidPre(NodeAt(orig, q))
       /\ {p, q} \subseteq ContainerPaths(tree)
       /\ Cardinality(ContainerPaths(tree)) = 2

\* the element an HTML parser makes of a raw container whose content has no
\* markup: a pre with class mermaid and the decoded text, no code element
ParsedContainer(node) ==
  Element("pre", <<ClassName(<<"mermaid">>)>>,
          IF containerContent(node) = <<>> THEN <<>>
          ELSE <<Text(unescapeHtml(containerContent(node)))>>)

\* C11: a step of the rehype transformer never rewrites the container the
\* remark transformer put in the place of a mermaid code node: the container
\* is a raw node whose content holds no < or >, so it parses to a pre with
\* class mermaid and no code element, which the match predicate rejects and
\* the transformer leaves as it is, in either form.
C11_RehypeSkipsRemarkOutput ==
  [][(RehypeStep /\ "remark" \in Range(runs)) =>
      \A p \in DiagramPaths(orig) :
        IsMermaidCode(NodeAt(orig, p)) =>
          LET node == NodeAt(tree, p) IN
            /\ IsRawContainer(node)
            /\ \A i \in 1..Len(containerContent(node)) :
                 containerContent(node)[i] \notin {"<", ">"}
            /\ ~ IsMermaidPre(ParsedContainer(node))
            /\ rehypeTransformer(Root(<<ParsedContainer(node)>>))
                 = Root(<<ParsedContainer(node)>>)
            /\ p \in Paths(tree')
            /\ NodeAt(tree', p) = node]_vars

C11_Witness ==
  /\ runs = <<"remark", "rehype">>
  /\ \E p \in DiagramPaths(orig) :
       /\ NodeAt(orig, p) = Code("mermaid", TaggedText)
       /\ NodeAt(tree, p) = Html(PreOpen \o Escaped(TaggedText) \o PreClose)

\* C12: each transformer is idempotent: a step of a transformer that has
\* already run on the tree leaves the tree as it is.
C12_Idempotent ==
  [][/\ (RemarkStep /\ "remark" \in Range(runs)) => tree' = tree
     /\ (RehypeStep /\ "rehype" \in Range(runs)) => tree' = tree]_vars

C12_Witness ==
  /\ runs = <<"rehype", "rehype">>
  /\ tree # orig
  /\ \E p \in DiagramPaths(orig) :
       /\ NodeAt(orig, p) = MermaidPre(<<Text(<<"&">>)>>)
       /\ NodeAt(tree, p).children = <<Text(<<"&", "a", "m", "p", ";">>)>>

\* C13: the two rewrites commute: once both have run once, in either order,
\* the tree is the one the opposite order gives.
C13_Commute ==
  /\ runs = <<"remark", "rehype">> =>
       tree = remarkTransformer(rehypeTransformer(orig))
  /\ runs = <<"rehype", "remark">> =>
       tree = rehypeTransformer(remarkTransformer(orig))

C13_Witness ==
  /\ runs = <<"rehype", "remark">>
  /\ \E p, q \in DiagramPaths(orig) :
       /\ IsMermaidCode(NodeAt(orig, p))
       /\ IsMermaidPre(NodeAt(orig, q))
       /\ IsRawContainer(NodeAt(tree, p))
       /\ IsPreContainer(NodeAt(tree, q))

\* C14: a step of the remark transformer replaces a mermaid code node with
\* an empty value by the html node '<pre class="mermaid"></pre>'.
C14_EmptyDiagram ==
  [][RemarkStep =>
      \A p \in Paths(tree) \ {<<>>} :
        NodeAt(tree, p) = Code("mermaid", <<>>) =>
          /\ p \in Paths(tree')
          /\ NodeAt(tree', p) = Html(PreOpen \o PreClose)]_vars

C14_Witness ==
  /\ "remark" \in Range(runs)
  /\ \E p \in Paths(orig) :
       /\ NodeAt(orig, p) = Code("mermaid", <<>>)
       /\ NodeAt(tree, p) = Html(PreOpen \o PreClose)

\* what the transformer of an invocation makes of its document when it is
\* the only invocation
Alone(call) ==
  IF call.plugin = "remark" THEN remarkTransformer(call.orig)
  ELSE rehypeTransformer(call.orig)

\* the blocks of an invocation's document that its transformer looks for
BlocksOf(call) ==
  IF call.plugin = "remark"
    THEN { p \in Paths(call.orig) : IsMermaidCode(NodeAt(call.orig, p)) }
    ELSE { p \in Paths(call.orig) : IsMermaidPre(NodeAt(call.orig, p)) }

Resumes(i) == calls[i].pc = "import" /\ calls'[i].pc # "import"

\* C15: the logger is observational: the step in which a transformer runs
\* ends the invocation with the tree that the other choice of logger gives,
\* the tree the transformer produces on its own; with no logger nothing is
\* reported.
C15_LoggerObservational ==
  [][\A i \in DOMAIN calls :
       Resumes(i) =>
         /\ calls'[i].pc = "done"
         /\ calls'[i].tree = invoke(calls[i], 0, ~ logger).tree
         /\ calls'[i].tree = Alone(calls[i])
         /\ ~ logger => log' = <<>>]_vars

C15_Witness ==
  /\ ~ logger
  /\ log = <<>>
  /\ \E i \in DOMAIN calls :
       /\ calls[i].pc = "done"
       /\ calls[i].tree # calls[i].orig
       /\ calls[i].mermaidCount = 2

\* C16: invocations on different documents are independent under every
\* interleaving: a finished invocation's tree is the one its transformer
\* gives alone, an unfinished one's tree is untouched, and a finished
\* invocation's counter is the number of blocks of its own document.
C16_Independent ==
  \A i \in DOMAIN calls :
    /\ calls[i].pc = "done" =>
         /\ calls[i].tree = Alone(calls[i])
         /\ calls[i].mermaidCount = Cardinality(BlocksOf(calls[i]))
    /\ calls[i].pc # "done" =>
         /\ calls[i].tree = calls[i].orig
         /\ calls[i].mermaidCount = 0

C16_Witness ==
  /\ logger
  /\ calls[1].pc = "done" /\ calls[1].plugin = "remark"
  /\ calls[2].pc = "done" /\ calls[2].plugin = "rehype"
  /\ calls[1].mermaidCount = 2
  /\ calls[2].mermaidCount = 1
  /\ calls[1].tree # calls[1].orig
  /\ calls[2].tree # calls[2].orig
  /\ log[1].plugin = "rehype"

\* C17, as stated: no other invocation takes a step between the host's call
\* of a transformer and the end of its rewrite: once an invocation is called,
\* the next step is the one that finishes it.
C17_NoStepBetween ==
  [][\A i \in DOMAIN calls :
       calls[i].pc = "import" => calls'[i].pc = "done"]_vars

\* C17, amended: an invocation suspends once, at its import of the traversal
\* utility, before it has read the tree; the traversal and all its mutations
\* then happen in one step: a step that changes an invocation's tree finishes
\* that invocation with the fully rewritten tree and changes no other
\* invocation, and an unfinished invocation's tree is untouched.
C17_RewriteInOneStep ==
  [][\A i \in DOMAIN calls :
       /\ calls'[i].tree # calls[i].tree =>
            /\ calls[i].pc = "import"
            /\ calls'[i].pc = "done"
            /\ calls'[i].tree = Alone(calls[i])
            /\ \A j \in DOMAIN calls \ {i} : calls'[j] = calls[j]
       /\ calls'[i].pc # "done" => calls'[i].tree = calls[i].orig]_vars

C17_Witness ==
  /\ calls[1].pc = "import"
  /\ calls[1].tree = calls[1].orig
  /\ Cardinality(BlocksOf(calls[1])) = 2
  /\ calls[2].pc = "done"
  /\ calls[2].tree # calls[2].orig

\* the plugins a site configured itself, none when the list or the whole
\* markdown section is missing
Configured(list) == IF list.defined THEN list.value ELSE <<>>

\* C18: the setup hook calls updateConfig once, with the site's remark
\* plugins in their order followed by the mermaid remark plugin, the site's
\* rehype plugins in their order followed by the mermaid rehype plugin, and
\* 'mermaid' among vite.optimizeDeps.include.
C18_PluginsAppended ==
  updates # <<>> =>
    /\ Len(updates) = 1
    /\ updates[1].markdown.remarkPlugins =
         Configured(config.markdown.remarkPlugins)
           \o <<PluginEntry("remarkMermaidPlugin", TRUE)>>
    /\ updates[1].markdown.rehypePlugins =
         Configured(config.markdown.rehypePlugins)
           \o <<PluginEntry("rehypeMermaidPlugin", TRUE)>>
    /\ "mermaid" \in Range(updates[1].vite.optimizeDeps.include)

C18_Witness ==
  /\ updates # <<>>
  /\ config.markdown.remarkPlugins =
       Defined(<<PluginEntry("b", FALSE), PluginEntry("a", FALSE)>>)
  /\ config.markdown.rehypePlugins = Undefined
  /\ Len(updates[1].markdown.remarkPlugins) = 3
  /\ updates[1].markdown.remarkPlugins[1].plugin = "b"
  /\ Len(updates[1].markdown.rehypePlugins) = 1

\* the library has been asked for, or has arrived
Imported == script \in {"importing", "ready", "failed"}

\* C19: the library is loaded lazily: the import starts only in the step in
\* which the script runs, and only when the document then has a pre.mermaid;
\* when it has none the script skips, and from then on nothing is imported,
\* initialized, rendered, observed or listened to, whatever page is shown.
C19_LazyImport ==
  [][/\ script = "loaded" =>
          script' = (IF Len(dom) > 0 THEN "importing" ELSE "skipped")
     /\ (Imported' /\ ~ Imported) => (script = "loaded" /\ Len(dom) > 0)
     /\ script = "skipped" =>
          /\ script' = "skipped"
          /\ tasks' = <<>>
          /\ ~ observer' /\ ~ listener'
          /\ mermaidTheme' = NoTheme
          /\ \A id \in DOMAIN els' : els'[id] = FreshElement(id)]_vars

C19_Witness ==
  /\ script = "skipped"
  /\ events = MaxEvents
  /\ Len(dom) > 0
  /\ htmlTheme = "sepia"

\* nothing is left to run: the script has run, the import is not pending and
\* has not failed, and no render is pending
Settled == script \in {"skipped", "ready"} /\ tasks = <<>>

\* C20: every pre.mermaid of the page shown is eventually rendered, given
\* that the import and every render complete: once nothing is left to run,
\* every pre.mermaid of the document is marked data-processed and holds a
\* rendered diagram or the error box.
C20_EveryDiagramRendered ==
  Settled =>
    \A k \in DOMAIN dom :
      /\ els[dom[k]].processed
      /\ els[dom[k]].content.kind \in {"svg", "error"}


\* the element a suspended initMermaid is rendering
Rendering(task) == task.diagrams[task.idx]

\* C21: the definition handed to mermaid.render for an element is the text
\* the element had before its first render (the element's own source):
\* data-diagram is absent or that text, once written it never changes, and
\* rendered content carries that definition, also when the element is
\* rendered again after a theme change or after a failed render.
C21_OriginalSource ==
  [][/\ \A t \in DOMAIN tasks' : tasks'[t].def = Rendering(tasks'[t])
     /\ \A id \in DOMAIN els' :
          /\ els'[id].dataDiagram \in {NoAttr, id}
          /\ els'[id].content.def = id
          /\ els'[id].content.kind # "text" => els'[id].dataDiagram = id
     /\ \A id \in DOMAIN els :
          els[id].dataDiagram # NoAttr =>
            els'[id].dataDiagram = els[id].dataDiagram]_vars

C21_Witness ==
  \E t \in DOMAIN tasks :
    /\ els[Rendering(tasks[t])].content.kind = "error"
    /\ ~ els[Rendering(tasks[t])].processed
    /\ tasks[t].def = Rendering(tasks[t])
    /\ \E id \in DOMAIN els :
         /\ els[id].content.kind = "svg"
         /\ ~ els[id].processed


\* a step in which the site changes data-theme on html or on body
ThemeStep == htmlTheme' # htmlTheme \/ bodyTheme' # bodyTheme

\* the theme the site's data-theme stands for: html's value before body's,
\* the configured theme for a value that is absent or not in the theme map
ThemeShown(html, body) ==
  LET dataTheme == IF html # NoTheme THEN html ELSE body IN
    IF dataTheme = "dark" THEN "dark"
    ELSE IF dataTheme = "light" THEN "default"
    ELSE configuredTheme

\* C22: with autoTheme off no observer is registered, every render uses the
\* configured theme and a change of data-theme touches no element and starts
\* no render; with autoTheme on the observer is registered once the library
\* has loaded, and a change of data-theme then clears data-processed on every
\* pre.mermaid of the document and starts a render of the first of them with
\* the theme now shown.
C22_AutoTheme ==
  [][/\ ~ autoTheme =>
          /\ ~ observer'
          /\ \A t \in DOMAIN tasks' : tasks'[t].theme = configuredTheme
          /\ \A id \in DOMAIN els' :
               els'[id].content.kind = "svg" =>
                 els'[id].content.theme = configuredTheme
          /\ ThemeStep => (els' = els /\ tasks' = tasks)
     /\ (autoTheme /\ script' = "ready") => observer'
     /\ (autoTheme /\ script = "ready" /\ ThemeStep) =>
          /\ \A k \in DOMAIN dom : ~ els'[dom[k]].processed
          /\ dom # <<>> =>
               /\ Len(tasks') = Len(tasks) + 1
               /\ tasks'[Len(tasks')] =
                    [diagrams |-> dom, idx |-> 1, def |-> dom[1],
                     theme |-> ThemeShown(htmlTheme', bodyTheme')]]_vars

C22_Witness ==
  /\ autoTheme
  /\ htmlTheme = NoTheme
  /\ bodyTheme = "dark"
  /\ Len(tasks) = 1
  /\ tasks[1].theme = "dark"
  /\ tasks[1].idx = 1
  /\ \E k \in DOMAIN dom :
       /\ els[dom[k]].content.kind = "svg"
       /\ els[dom[k]].content.theme = configuredTheme
       /\ ~ els[dom[k]].processed


\* the positions after a task's current one whose element is unprocessed
Remaining(task, E) ==
  { k \in (task.idx + 1)..Len(task.diagrams) : ~ E[task.diagrams[k]].processed }

\* the pending renders without the one at position t
Without(ts, t) == SubSeq(ts, 1, t - 1) \o SubSeq(ts, t + 1, Len(ts))

\* C28: a render failure is contained: in a step in which an element's
\* content becomes the error box, the element is marked data-processed and
\* the pass whose render failed goes on: it is rendering the next unprocessed
\* diagram of its snapshot, or has ended because none is left, and every
\* other pending render is untouched.
C28_FailureContained ==
  [][\A id \in DOMAIN els :
       (/\ els'[id].content.kind = "error"
        /\ \/ els'[id].content # els[id].content
           \/ els'[id].processed /\ ~ els[id].processed) =>
         /\ els'[id].processed
         /\ \E t \in DOMAIN tasks :
              /\ Rendering(tasks[t]) = id
              /\ LET left == Remaining(tasks[t], els) IN
                   IF left = {}
                     THEN tasks' = Without(tasks, t)
                     ELSE /\ Len(tasks') = Len(tasks)
                          /\ Without(tasks', t) = Without(tasks, t)
                          /\ tasks'[t].diagrams = tasks[t].diagrams
                          /\ tasks'[t].idx \in left
                          /\ \A k \in left : tasks'[t].idx <= k]_vars

C28_Witness ==
  /\ events = 0
  /\ Len(dom) = 2
  /\ els[dom[1]].content.kind = "error"
  /\ els[dom[1]].processed
  /\ Len(tasks) = 1
  /\ tasks[1].idx = 2


\* C29: at most one render is in flight for an element at any time: no two
\* pending renders are for the same element, and no pending render is for an
\* element that is marked data-processed.
C29_OneRenderInFlight ==
  /\ \A t, u \in DOMAIN tasks :
       t # u => Rendering(tasks[t]) # Rendering(tasks[u])
  /\ \A t \in DOMAIN tasks : ~ els[Rendering(tasks[t])].processed

\* the theme the page shows now
ShownNow == ThemeShown(htmlTheme, bodyTheme)

\* C30: with autoTheme on, once the library has loaded and no render is
\* pending, every pre.mermaid of the document that holds a rendered diagram
\* holds one rendered with the theme the page shows now.
C30_ThemeConverges ==
  (autoTheme /\ script = "ready" /\ tasks = <<>>) =>
    \A k \in DOMAIN dom :
      els[dom[k]].content.kind = "svg" =>
        els[dom[k]].content.theme = ShownNow


\* the code nodes of an invocation's document that its tree now holds as
\* html nodes
Replaced(call) ==
  { p \in Paths(call.orig) :
      /\ IsMermaidCode(NodeAt(call.orig, p))
      /\ p \in Paths(call.tree)
      /\ NodeAt(call.tree, p).type = "html" }

\* C27: the number of blocks the remark transformer counts, and reports, is
\* the number of code nodes it replaced by an html node in that invocation,
\* also when the matching node has no parent.
C27_CountIsTransformed ==
  \A i \in DOMAIN calls :
    (calls[i].pc = "done" /\ calls[i].plugin = "remark") =>
      calls[i].mermaidCount = Cardinality(Replaced(calls[i]))


\* the serializer's input as one tree, and the paths of its nodes
Forest == Root(input)
NodePaths == Paths(Forest) \ {<<>>}

\* a step in which a loop takes a child, the child, and what the step emits
Visiting == Len(visits') = Len(visits) + 1
Visited == NodeAt(Forest, visits'[Len(visits')])
Emitted == SubSeq(result', Len(result) + 1, Len(result'))
Appends == Len(result') >= Len(result) /\ SubSeq(result', 1, Len(result)) = result

StartsWith(str, pat) == Len(pat) <= Len(str) /\ SubSeq(str, 1, Len(pat)) = pat
EndsWith(str, pat) ==
  Len(pat) <= Len(str) /\ SubSeq(str, Len(str) - Len(pat) + 1, Len(str)) = pat

AllText(children) == \A i \in DOMAIN children : children[i].type = "text"
TextValues(children) == Concat([i \in DOMAIN children |-> children[i].value])

\* C23: the serializer emits the value of every text node as it is; for a
\* code element whose children are all text nodes it returns their values
\* concatenated in order, and the text the rehype transformer stores is that
\* concatenation escaped once.
C23_TextUnchanged ==
  [][/\ (Visiting /\ Visited.type = "text") =>
          (Appends /\ Emitted = Visited.value)
     /\ (frames' = <<>> /\ AllText(input)) =>
          /\ result' = TextValues(input)
          /\ rehypeTransformer(Root(<<MermaidPre(input)>>)).children[1].children
               = <<Text(Escaped(TextValues(input)))>>]_vars

C23_Witness ==
  /\ frames = <<>>
  /\ input = <<Text(<<"<", "a">>), Text(<<"&">>)>>
  /\ result = <<"<", "a", "&">>

\* the tags the claim lists as self-closing
SelfClosing == {"br", "hr", "img", "input", "meta", "link"}
OpenTag(tagName) == <<"<">> \o Chars(tagName)
CloseTag(tagName) == <<"<", "/">> \o Chars(tagName) \o <<">">>

\* C24: for an element the serializer emits '<tagName' and the attributes,
\* then '/>' with no children and no closing tag for a self-closing tag, and
\* otherwise '>', the serialization of the children in order, and
\* '</tagName>': the closing tag is emitted by the return of the call that
\* serialized the children, once, after all of them.
C24_ElementForm ==
  [][/\ Visiting =>
          LET top == frames[Len(frames)] IN
            /\ visits'[Len(visits')] = top.path \o <<top.i>>
            /\ frames'[Len(frames)].i = top.i + 1
            /\ Appends
     /\ (Visiting /\ Visited.type = "element") =>
          /\ StartsWith(Emitted, OpenTag(Visited.tagName))
          /\ IF Visited.tagName \in SelfClosing
               THEN /\ EndsWith(Emitted, <<"/", ">">>)
                    /\ Len(frames') = Len(frames)
             ELSE IF Visited.children = <<>>
               THEN /\ EndsWith(Emitted, <<">">> \o CloseTag(Visited.tagName))
                    /\ Len(frames') = Len(frames)
             ELSE /\ EndsWith(Emitted, <<">">>)
                  /\ ~ EndsWith(Emitted, <<"/", ">">>)
                  /\ Len(frames') = Len(frames) + 1
                  /\ frames'[Len(frames')].children = Visited.children
                  /\ frames'[Len(frames')].tagName = Visited.tagName
                  /\ frames'[Len(frames')].i = 1
     /\ Len(frames') < Len(frames) =>
          LET top == frames[Len(frames)] IN
            /\ frames' = SubSeq(frames, 1, Len(frames) - 1)
            /\ top.i = Len(top.children) + 1
            /\ result' = result \o (IF Len(frames) = 1 THEN <<>>
                                    ELSE CloseTag(top.tagName))]_vars

C24_Witness ==
  /\ frames = <<>>
  /\ Len(input) = 1
  /\ input[1].tagName = "div"
  /\ result = <<"<", "d", "i", "v", ">",
                "<", "b", " ", "i", "d", "=", "\"", "x", "\"", ">", "a",
                "<", "/", "b", ">", "<", "b", "r", "/", ">",
                "<", "/", "d", "i", "v", ">">>

\* the attribute text the claim gives one stored property
AttributeOf(prop) ==
  IF prop.key = "className" /\ prop.isArray
    THEN <<" ", "c", "l", "a", "s", "s", "=", "\"">>
           \o JoinSpace(prop.value) \o <<"\"">>
    ELSE <<" ">> \o Chars(prop.key) \o <<"=", "\"">> \o prop.value \o <<"\"">>

AttributesOf(props) == Concat([i \in DOMAIN props |-> AttributeOf(props[i])])

\* C25: the serializer emits the attributes of an element in their stored
\* order, each as ' key="value"', the class property with a sequence value as
\* ' class="..."' with its tokens joined by single spaces; every stored
\* property appears once, so the tag opens with '<tagName', one attribute per
\* stored property, and then '/' or '>'.
C25_Attributes ==
  [][(Visiting /\ Visited.type = "element") =>
       LET head == OpenTag(Visited.tagName) \o AttributesOf(Visited.properties)
       IN /\ StartsWith(Emitted, head)
          /\ Len(Emitted) > Len(head)
          /\ Emitted[Len(head) + 1] \in {"/", ">"}]_vars

RECURSIVE Levels(_)
Levels(children) ==
  IF children = <<>> THEN 0
  ELSE LET below == { Levels(children[i].children) : i \in DOMAIN children }
       IN 1 + CHOOSE m \in below : \A n \in below : n <= m

\* what is left to do: the nodes not yet passed, each of which may open a
\* call, and the calls not yet returned
Measure(vs, fs) == 2 * Cardinality(NodePaths \ Range(vs)) + Len(fs)

\* C26: the serializer terminates on every finite tree: every step passes a
\* node not passed before or returns from a call, so what is left to do
\* decreases; no node is passed twice; the calls in progress never exceed
\* the depth of the tree; and when the outermost call has returned every
\* node has been passed.
C26_Terminates ==
  [][/\ Measure(visits', frames') < Measure(visits, frames)
     /\ \A a, b \in DOMAIN visits' : a # b => visits'[a] # visits'[b]
     /\ Range(visits') \subseteq NodePaths
     /\ Len(frames') <= (IF Levels(input) = 0 THEN 1 ELSE Levels(input))
     /\ frames' = <<>> => Range(visits') = NodePaths]_vars

C26_Witness ==
  /\ frames = <<>>
  /\ Levels(input) = 3
  /\ Len(input) = MaxChildren
  /\ Len(visits) = Cardinality(NodePaths)

====
